---- MODULE Spec2Model ----
(***************************************************************************)
(* s3tests/realistic.py: RandomContentFile (a seeded pseudorandom stream   *)
(* ending in the MD5 digest of its payload) and FileVerifier (the          *)
(* incremental checker of that layout).                                    *)
(*                                                                         *)
(* Byte strings are sequences over 0..255.  Python's None is NoneBytes     *)
(* where a byte string or a hash object is expected, NoneChunks where a    *)
(* chunk list is expected and NoneTime where a time is expected.           *)
(***************************************************************************)
EXTENDS Integers, Sequences, FiniteSets, TLC

\* ------------------------------------------------------------------ bounds
MaxSmall == 2        \* stream sizes 0..MaxSmall lie wholly inside the trailer
MaxPayload == 1      \* stream sizes 16..16+MaxPayload carry 0..MaxPayload payload bytes
MaxSeed == 1         \* seeds 0..MaxSeed
MaxRead == 2         \* read(n) is called with n in -1..MaxRead
MaxCalls == 4        \* calls made on one stream
MaxPairCalls == 2    \* calls made on each of two streams driven alike
MaxClock == 1        \* time.time() runs over 0..MaxClock
MaxWrites == 2       \* write calls made on the verifier
MaxWriteLen == 2     \* a write takes at most MaxWriteLen bytes, or leaves at most that many
MaxValids == 2       \* valid() calls made between two writes
MaxSeek == 1         \* seek(k) is called with k in 0..MaxSeek
MaxSeekCalls == 3    \* calls made on a stream that is also given seeks other than seek(0)
MaxBlock == 2        \* copies are also made in blocks of 1..MaxBlock bytes
MaxPcfRead == 1      \* a PrecomputedContentFile is read with n in -1..MaxPcfRead
MaxPcfSeek == 1      \* a PrecomputedContentFile is sought to 0..MaxPcfSeek
MaxPcfCalls == 3     \* calls made on a PrecomputedContentFile
MaxWordPayload == 9  \* streams of MaxWordPayload-2..MaxWordPayload payload bytes, about one word
MaxWordRead == 2     \* such a stream is read with n = -1 or n in 1..MaxWordRead
MaxWordCalls == 2    \* calls made on such a stream
MaxWords == 2        \* _generate calls of 0..MaxWords words each are joined

\* ------------------------------------------------------- program constants
NANOSECOND == 1000000000
GenerateLimit == 1048576     \* 1*1024*1024, the most _generate makes at a time
Md5DigestSize == 16          \* hashlib.md5().digest_size
CopyLength == 16384          \* 16*1024, the block length shutil.copyfileobj reads with

NoneBytes == <<-1>>
NoneChunks == << <<-1, -1>> >>
NoneTime == -1

Min(a, b) == IF a < b THEN a ELSE b
Max(a, b) == IF a > b THEN a ELSE b

\* ---------------------------------------------------------- Python strings
\* s[lo:hi] with Python's treatment of negative and out-of-range indices.
SliceIndex(i, len) == IF i < 0 THEN Max(i + len, 0) ELSE Min(i, len)
Slice(s, lo, hi) == SubSeq(s, SliceIndex(lo, Len(s)) + 1, SliceIndex(hi, Len(s)))
\* s[:k], s[k:]
SliceTo(s, k) == Slice(s, 0, k)
SliceFrom(s, k) == Slice(s, k, Len(s))
\* s.startswith(p)
StartsWith(s, p) == Len(p) <= Len(s) /\ SubSeq(s, 1, Len(p)) = p

\* ------------------------------------------------------------- hashlib.md5
\* A hash object is the byte string fed into it so far; digest() is a
\* 16-byte function of that string and leaves the object as it was.  The
\* function stands in for MD5: sixteen polynomial lanes modulo 256 with odd
\* multipliers, so two inputs that differ in one byte have different digests.
Md5Lane0(i) == (i * 37 + 11) % 256
Md5Step(h, b) == [i \in 1..Md5DigestSize |-> (h[i] * (2 * i + 1) + b + i) % 256]
RECURSIVE Md5Fold(_, _)
Md5Fold(h, data) ==
    IF data = <<>> THEN h ELSE Md5Fold(Md5Step(h, Head(data)), Tail(data))
Md5New == <<>>
Md5Update(h, data) == h \o data
Md5Digest(h) == Md5Fold([i \in 1..Md5DigestSize |-> Md5Lane0(i)], h)

\* ----------------------------------------------------------- random.Random
\* A generator is its seed and the number of 64-bit words drawn since it was
\* seeded.  A word is four 16-bit limbs, least significant first.
RandomNew(seed) == [seed |-> seed, pos |-> 0]
RandomSeed(rnd, seed) == [seed |-> seed, pos |-> 0]
GetRandBits64(rnd) ==
    [j \in 1..4 |-> ((rnd.seed + 1) * 7919 + (rnd.pos + 1) * 10473 + j * 12911) % 65536]
RandomAdvance(rnd) == [rnd EXCEPT !.pos = @ + 1]
\* struct.pack('Q', w): the eight bytes of w in native (little-endian) order
StructPackQ(w) ==
    [k \in 1..8 |-> IF k % 2 = 1 THEN w[(k + 1) \div 2] % 256
                                 ELSE w[k \div 2] \div 256]

\* ------------------------------------------------------- RandomContentFile
\* One chunk record: [offset, elapsed nanoseconds since the last seek].
ElapsedNsec(t, since) == (t - since) * NANOSECOND

\* _mark_chunk
MarkChunk(f, t) ==
    [f EXCEPT !.chunks = Append(@, <<f.offset, ElapsedNsec(t, f.last_seek)>>)]

\* seek that leaves the generator where it is
Seek_NoReseed(f, offset, t) ==
    IF offset # 0
    THEN [f |-> f, raised |-> TRUE]
    ELSE [f |-> [size |-> f.size,
                 seed |-> f.seed,
                 random |-> f.random,
                 offset |-> offset,
                 buffer |-> <<>>,
                 hash |-> Md5New,
                 digest_size |-> Md5DigestSize,
                 digest |-> NoneBytes,
                 last_chunks |-> f.chunks,
                 last_seek |-> t,
                 chunks |-> <<>>],
          raised |-> FALSE]

\* seek without the assertion: the stream is reset and put at `offset`
Seek_NoAssert(f, offset, t) ==
    [f |-> [size |-> f.size,
            seed |-> f.seed,
            random |-> RandomSeed(f.random, f.seed),
            offset |-> offset,
            buffer |-> <<>>,
            hash |-> Md5New,
            digest_size |-> Md5DigestSize,
            digest |-> NoneBytes,
            last_chunks |-> f.chunks,
            last_seek |-> t,
            chunks |-> <<>>],
     raised |-> FALSE]

\* seek without self.buffer = ''
Seek_KeepBuffer(f, offset, t) ==
    IF offset # 0
    THEN [f |-> f, raised |-> TRUE]
    ELSE [f |-> [size |-> f.size,
                 seed |-> f.seed,
                 random |-> RandomSeed(f.random, f.seed),
                 offset |-> offset,
                 buffer |-> IF "buffer" \in DOMAIN f THEN f.buffer ELSE <<>>,
                 hash |-> Md5New,
                 digest_size |-> Md5DigestSize,
                 digest |-> NoneBytes,
                 last_chunks |-> f.chunks,
                 last_seek |-> t,
                 chunks |-> <<>>],
          raised |-> FALSE]

\* seek without self.digest = None
Seek_KeepDigest(f, offset, t) ==
    IF offset # 0
    THEN [f |-> f, raised |-> TRUE]
    ELSE [f |-> [size |-> f.size,
                 seed |-> f.seed,
                 random |-> RandomSeed(f.random, f.seed),
                 offset |-> offset,
                 buffer |-> <<>>,
                 hash |-> Md5New,
                 digest_size |-> Md5DigestSize,
                 digest |-> IF "digest" \in DOMAIN f THEN f.digest ELSE NoneBytes,
                 last_chunks |-> f.chunks,
                 last_seek |-> t,
                 chunks |-> <<>>],
          raised |-> FALSE]

\* seek that seeds the generator from the clock: self.random.seed()
Seek_TimeSeed(f, offset, t) ==
    IF offset # 0
    THEN [f |-> f, raised |-> TRUE]
    ELSE [f |-> [size |-> f.size,
                 seed |-> f.seed,
                 random |-> RandomSeed(f.random, t),
                 offset |-> offset,
                 buffer |-> <<>>,
                 hash |-> Md5New,
                 digest_size |-> Md5DigestSize,
                 digest |-> NoneBytes,
                 last_chunks |-> f.chunks,
                 last_seek |-> t,
                 chunks |-> <<>>],
          raised |-> FALSE]

\* seek(offset) at time t: [f |-> the stream after the call, raised |-> whether
\* the assertion failed]
Seek(f, offset, t) ==
    IF offset # 0
    THEN [f |-> f, raised |-> TRUE]
    ELSE [f |-> [size |-> f.size,
                 seed |-> f.seed,
                 random |-> RandomSeed(f.random, f.seed),
                 offset |-> offset,
                 buffer |-> <<>>,
                 hash |-> Md5New,
                 digest_size |-> Md5DigestSize,
                 digest |-> NoneBytes,
                 last_chunks |-> f.chunks,
                 last_seek |-> t,
                 chunks |-> <<>>],
          raised |-> FALSE]

\* RandomContentFile(size, seed) constructed at time t
RandomContentFile(size, seed, t) ==
    Seek([size |-> size,
          seed |-> seed,
          random |-> RandomNew(seed),
          last_chunks |-> NoneChunks,
          chunks |-> NoneChunks,
          last_seek |-> NoneTime], 0, t).f

\* tell()
Tell(f) == f.offset

\* the list comprehension and struct.pack of _generate: `chunks` words drawn
\* in order, each packed to eight bytes
RECURSIVE GenerateWords(_, _)
GenerateWords(rnd, chunks) ==
    IF chunks <= 0
    THEN [s |-> <<>>, random |-> rnd]
    ELSE LET rest == GenerateWords(RandomAdvance(rnd), chunks - 1)
         IN  [s |-> StructPackQ(GetRandBits64(rnd)) \o rest.s, random |-> rest.random]

\* _generate(): [s |-> the bytes made, random |-> the generator afterwards]
Generate(f) ==
    LET size == Min(f.size, GenerateLimit)
        chunks == (size + 7) \div 8
    IN  GenerateWords(f.random, chunks)

\* while len(self.buffer) < random_count: self.buffer += self._generate()
RECURSIVE FillBuffer(_, _)
FillBuffer(f, random_count) ==
    IF Len(f.buffer) < random_count
    THEN LET g == Generate(f)
         IN  FillBuffer([f EXCEPT !.buffer = @ \o g.s, !.random = g.random], random_count)
    ELSE f

\* the payload branch that throws the rest of the buffer away
ReadRandom_DropLeftover(f, random_count) ==
    LET g == FillBuffer(f, random_count)
        data == SliceTo(g.buffer, random_count)
    IN  [f |-> [g EXCEPT !.offset = @ + random_count,
                         !.buffer = <<>>,
                         !.hash = IF g.hash # NoneBytes THEN Md5Update(g.hash, data) ELSE @],
         data |-> data]

\* the payload branch without self.hash.update(data)
ReadRandom_NoHash(f, random_count) ==
    LET g == FillBuffer(f, random_count)
        data == SliceTo(g.buffer, random_count)
    IN  [f |-> [g EXCEPT !.offset = @ + random_count,
                         !.buffer = SliceFrom(g.buffer, random_count)],
         data |-> data]

\* the payload branch of read, taken when random_count > 0
ReadRandom(f, random_count) ==
    LET g == FillBuffer(f, random_count)
        data == SliceTo(g.buffer, random_count)
    IN  [f |-> [g EXCEPT !.offset = @ + random_count,
                         !.buffer = SliceFrom(g.buffer, random_count),
                         !.hash = IF g.hash # NoneBytes THEN Md5Update(g.hash, data) ELSE @],
         data |-> data]

\* the trailer branch without self.hash = None
ReadDigest_KeepHash(f, digest_count) ==
    IF f.digest = NoneBytes /\ f.hash = NoneBytes
    THEN [f |-> f, data |-> <<>>, raised |-> TRUE]
    ELSE LET sealed == IF f.digest = NoneBytes
                       THEN [f EXCEPT !.digest = Md5Digest(f.hash)]
                       ELSE f
         IN  [f |-> [sealed EXCEPT !.offset = @ + digest_count],
              data |-> SliceTo(sealed.digest, digest_count),
              raised |-> FALSE]

\* the trailer branch of read, taken when digest_count > 0; None.digest()
\* raises before anything is assigned
ReadDigest(f, digest_count) ==
    IF f.digest = NoneBytes /\ f.hash = NoneBytes
    THEN [f |-> f, data |-> <<>>, raised |-> TRUE]
    ELSE LET sealed == IF f.digest = NoneBytes
                       THEN [f EXCEPT !.digest = Md5Digest(f.hash), !.hash = NoneBytes]
                       ELSE f
         IN  [f |-> [sealed EXCEPT !.offset = @ + digest_count],
              data |-> SliceTo(sealed.digest, digest_count),
              raised |-> FALSE]

\* read whose trailer part is bounded by the digest length, not by what is
\* left of the stream
Read_WholeTrailer(f, n, t) ==
    LET size0 == IF n < 0 THEN f.size - f.offset ELSE n
        random_count == Min(size0, f.size - f.offset - f.digest_size)
        p == IF random_count > 0
             THEN ReadRandom(f, random_count)
             ELSE [f |-> f, data |-> <<>>]
        size1 == IF random_count > 0 THEN size0 - random_count ELSE size0
        digest_count == Min(size1, f.digest_size)
        d == IF digest_count > 0
             THEN ReadDigest(p.f, digest_count)
             ELSE [f |-> p.f, data |-> <<>>, raised |-> FALSE]
    IN  IF d.raised
        THEN [f |-> d.f, data |-> <<>>, raised |-> TRUE]
        ELSE [f |-> MarkChunk(d.f, t), data |-> p.data \o d.data, raised |-> FALSE]

\* read that records a chunk only when it returns bytes
Read_NoMarkOnEmpty(f, n, t) ==
    LET size0 == IF n < 0 THEN f.size - f.offset ELSE n
        random_count == Min(size0, f.size - f.offset - f.digest_size)
        p == IF random_count > 0
             THEN ReadRandom(f, random_count)
             ELSE [f |-> f, data |-> <<>>]
        size1 == IF random_count > 0 THEN size0 - random_count ELSE size0
        digest_count == Min(size1, f.size - p.f.offset)
        d == IF digest_count > 0
             THEN ReadDigest(p.f, digest_count)
             ELSE [f |-> p.f, data |-> <<>>, raised |-> FALSE]
    IN  IF d.raised
        THEN [f |-> d.f, data |-> <<>>, raised |-> TRUE]
        ELSE [f |-> IF p.data \o d.data = <<>> THEN d.f ELSE MarkChunk(d.f, t),
              data |-> p.data \o d.data,
              raised |-> FALSE]

\* read(n) at time t: [f |-> the stream after the call, data |-> the bytes
\* returned, raised |-> whether the call raised]
Read(f, n, t) ==
    LET size0 == IF n < 0 THEN f.size - f.offset ELSE n
        random_count == Min(size0, f.size - f.offset - f.digest_size)
        p == IF random_count > 0
             THEN ReadRandom(f, random_count)
             ELSE [f |-> f, data |-> <<>>]
        size1 == IF random_count > 0 THEN size0 - random_count ELSE size0
        digest_count == Min(size1, f.size - p.f.offset)
        d == IF digest_count > 0
             THEN ReadDigest(p.f, digest_count)
             ELSE [f |-> p.f, data |-> <<>>, raised |-> FALSE]
    IN  IF d.raised
        THEN [f |-> d.f, data |-> <<>>, raised |-> TRUE]
        ELSE [f |-> MarkChunk(d.f, t), data |-> p.data \o d.data, raised |-> FALSE]

\* one call as the caller saw it: what it returned or raised, and tell() after it
ReadCall(n, r) ==
    [op |-> "read", arg |-> n, data |-> r.data, raised |-> r.raised, tell |-> Tell(r.f)]
SeekCall(k, r) ==
    [op |-> "seek", arg |-> k, data |-> <<>>, raised |-> r.raised, tell |-> Tell(r.f)]

\* ------------------------------------------------------------ FileVerifier
\* FileVerifier() constructed at time t
FileVerifier(t) ==
    [size |-> 0, hash |-> Md5New, buf |-> <<>>, created_at |-> t, chunks |-> <<>>]

\* FileVerifier._mark_chunk
VerifierMarkChunk(v, t) ==
    [v EXCEPT !.chunks = Append(@, <<v.size, ElapsedNsec(t, v.created_at)>>)]

\* write with the trailing buffer cut from `data` instead of from buf + data
Write_NoCarry(v, data, t) ==
    LET buf == v.buf \o data
        digsz == -1 * Md5DigestSize
        new_data == Slice(buf, 0, digsz)
    IN  VerifierMarkChunk([v EXCEPT !.size = @ + Len(data),
                                    !.buf = SliceFrom(data, digsz),
                                    !.hash = Md5Update(@, new_data)], t)

\* write with every byte fed into the digest at once
Write_HashAll(v, data, t) ==
    LET buf == v.buf \o data
        digsz == -1 * Md5DigestSize
    IN  VerifierMarkChunk([v EXCEPT !.size = @ + Len(data),
                                    !.buf = SliceFrom(buf, digsz),
                                    !.hash = Md5Update(@, data)], t)

\* write that never trims the trailing buffer
Write_NoTrim(v, data, t) ==
    LET buf == v.buf \o data
        digsz == -1 * Md5DigestSize
        new_data == Slice(buf, 0, digsz)
    IN  VerifierMarkChunk([v EXCEPT !.size = @ + Len(data),
                                    !.buf = buf,
                                    !.hash = Md5Update(@, new_data)], t)

\* write(data) at time t
Write(v, data, t) ==
    LET buf == v.buf \o data
        digsz == -1 * Md5DigestSize
        new_data == Slice(buf, 0, digsz)
    IN  VerifierMarkChunk([v EXCEPT !.size = @ + Len(data),
                                    !.buf = SliceFrom(buf, digsz),
                                    !.hash = Md5Update(@, new_data)], t)

\* valid without the rule for short streams
Valid_NoShortRule(v) ==
    [v |-> v, result |-> v.buf = Md5Digest(v.hash)]

\* valid that compares the length of the trailing buffer, not its bytes
Valid_LengthOnly(v) ==
    [v |-> v,
     result |-> IF v.size < Md5DigestSize
                THEN StartsWith(Md5Digest(v.hash), v.buf)
                ELSE Len(v.buf) = Len(Md5Digest(v.hash))]

\* valid whose digest() finalizes the hash object, which then starts afresh
Valid_Finalizing(v) ==
    [v |-> [v EXCEPT !.hash = Md5New],
     result |-> IF v.size < Md5DigestSize
                THEN StartsWith(Md5Digest(v.hash), v.buf)
                ELSE v.buf = Md5Digest(v.hash)]

\* valid(): [v |-> the verifier after the call, result |-> the answer]
Valid(v) ==
    [v |-> v,
     result |-> IF v.size < Md5DigestSize
                THEN StartsWith(Md5Digest(v.hash), v.buf)
                ELSE v.buf = Md5Digest(v.hash)]

\* -------------------------------------------------- SpooledTemporaryFile
\* A temporary file is its content and its position.
TempFile == [content |-> <<>>, pos |-> 0]
FileSeek(file, offset) == [file EXCEPT !.pos = offset]
FileTell(file) == file.pos
\* read(size): [file |-> the file after the call, data |-> the bytes returned]
FileRead(file, size) ==
    LET data == IF size < 0
                THEN SliceFrom(file.content, file.pos)
                ELSE Slice(file.content, file.pos, file.pos + size)
    IN  [file |-> [file EXCEPT !.pos = @ + Len(data)], data |-> data]
\* write(data) at the position
FileWrite(file, data) ==
    [content |-> SliceTo(file.content, file.pos) \o data
                     \o SliceFrom(file.content, file.pos + Len(data)),
     pos |-> file.pos + Len(data)]

\* shutil.copyfileobj(f, fdst, length) from a RandomContentFile, every read at
\* time t: read(length) until a read returns nothing.  calls are the reads.
RECURSIVE CopyStream(_, _, _, _)
CopyStream(f, fdst, length, t) ==
    LET r == Read(f, length, t)
    IN  IF r.raised \/ r.data = <<>>
        THEN [f |-> r.f, fdst |-> fdst, calls |-> <<ReadCall(length, r)>>]
        ELSE LET rest == CopyStream(r.f, FileWrite(fdst, r.data), length, t)
             IN  [rest EXCEPT !.calls = <<ReadCall(length, r)>> \o @]

\* shutil.copyfileobj(fsrc, fdst, length) from a temporary file
RECURSIVE CopyFile(_, _, _)
CopyFile(fsrc, fdst, length) ==
    LET r == FileRead(fsrc, length)
    IN  IF r.data = <<>>
        THEN [fsrc |-> r.file, fdst |-> fdst]
        ELSE CopyFile(r.file, FileWrite(fdst, r.data), length)

\* -------------------------------------------------- PrecomputedContentFile
NonePcf == [file |-> NoneBytes]

\* seek that resets the chunk records but leaves the cursor where it is
PcfSeek_NoFileSeek(p, offset, t) ==
    IF offset = 0
    THEN [file |-> p.file, last_chunks |-> p.chunks, last_seek |-> t, chunks |-> <<>>]
    ELSE p

\* seek that resets the chunk records whatever the offset
PcfSeek_AlwaysReset(p, offset, t) ==
    [file |-> FileSeek(p.file, offset),
     last_chunks |-> p.chunks,
     last_seek |-> t,
     chunks |-> <<>>]

\* seek(offset) at time t
PcfSeek(p, offset, t) ==
    LET file == FileSeek(p.file, offset)
    IN  IF offset = 0
        THEN [file |-> file, last_chunks |-> p.chunks, last_seek |-> t, chunks |-> <<>>]
        ELSE [p EXCEPT !.file = file]

\* PrecomputedContentFile(f) constructed at time t, the copy made in blocks
\* of `length` bytes
PrecomputedContentFile(f, length, t) ==
    PcfSeek([file |-> CopyFile(FileSeek(f, 0), TempFile, length).fdst,
             last_chunks |-> NoneChunks,
             chunks |-> NoneChunks,
             last_seek |-> NoneTime], 0, t)

\* tell()
PcfTell(p) == FileTell(p.file)

\* _mark_chunk
PcfMarkChunk(p, t) ==
    [p EXCEPT !.chunks = Append(@, <<PcfTell(p), ElapsedNsec(t, p.last_seek)>>)]

\* read(size) at time t: [p |-> the file after the call, data |-> the bytes]
PcfRead(p, size, t) ==
    LET r == FileRead(p.file, size)
    IN  [p |-> PcfMarkChunk([p EXCEPT !.file = r.file], t), data |-> r.data]

\* ------------------------------------------------------------------- state
VARIABLES
    now,        \* the value time.time() returned last
    rcf,        \* rcf[i]: the i-th RandomContentFile
    hist,       \* hist[i]: the calls made on rcf[i] with what each returned
    verifier,   \* the FileVerifier
    wire,       \* bytes read from rcf[1] and not yet written to the verifier
    sent,       \* all bytes written to the verifier, in order
    flipped,    \* position of the byte changed on the wire, 0 when none was
    answers,    \* what the valid() calls since the last write returned
    pcf,        \* the PrecomputedContentFile files2 yields, NonePcf before it does
    plog        \* the calls made on pcf with what each returned

vars == <<now, rcf, hist, verifier, wire, sent, flipped, answers, pcf, plog>>

Inst == {1, 2}
Sizes == (0..MaxSmall) \cup (Md5DigestSize..(Md5DigestSize + MaxPayload))
Seeds == 0..MaxSeed
ReadArgs == -1..MaxRead

\* Both streams are built with the same (size, seed); the verifier is fresh.
Init ==
    /\ now = 0
    /\ \E size \in Sizes, seed \in Seeds :
           rcf = [i \in Inst |-> RandomContentFile(size, seed, 0)]
    /\ hist = [i \in Inst |-> <<>>]
    /\ verifier = FileVerifier(0)
    /\ wire = <<>>
    /\ sent = <<>>
    /\ flipped = 0
    /\ answers = <<>>
    /\ pcf = NonePcf
    /\ plog = <<>>

\* time.time() never runs backwards between two calls
Times == now..Min(now + 1, MaxClock)

\* rcf[i].read(n)
DoRead(i, n) ==
    /\ \E t \in Times :
           LET r == Read(rcf[i], n, t)
           IN  /\ now' = t
               /\ rcf' = [rcf EXCEPT ![i] = r.f]
               /\ hist' = [hist EXCEPT ![i] = Append(@, ReadCall(n, r))]
    /\ UNCHANGED <<verifier, wire, sent, flipped, answers, pcf, plog>>

\* rcf[i].seek(k)
DoSeek(i, k) ==
    /\ \E t \in Times :
           LET r == Seek(rcf[i], k, t)
           IN  /\ now' = t
               /\ rcf' = [rcf EXCEPT ![i] = r.f]
               /\ hist' = [hist EXCEPT ![i] = Append(@, SeekCall(k, r))]
    /\ UNCHANGED <<verifier, wire, sent, flipped, answers, pcf, plog>>

\* A caller driving one stream through read and seek(0) calls.
StreamRead(n) == Len(hist[1]) < MaxCalls /\ DoRead(1, n)
StreamSeek == Len(hist[1]) < MaxCalls /\ DoSeek(1, 0)

NextStream ==
    \/ \E n \in ReadArgs : StreamRead(n)
    \/ StreamSeek

SpecStream == Init /\ [][NextStream]_vars

\* Two streams built alike: a caller drives the first, and the second is
\* given the same calls, each at some later time.
Follow ==
    /\ Len(hist[2]) < Len(hist[1])
    /\ LET c == hist[1][Len(hist[2]) + 1]
       IN  IF c.op = "read" THEN DoRead(2, c.arg) ELSE DoSeek(2, c.arg)

PairRead(n) == Len(hist[1]) < MaxPairCalls /\ DoRead(1, n)
PairSeek == Len(hist[1]) < MaxPairCalls /\ DoSeek(1, 0)

NextPair ==
    \/ \E n \in ReadArgs : PairRead(n)
    \/ PairSeek
    \/ Follow

SpecPair == Init /\ [][NextPair]_vars

\* A caller that also seeks to offsets other than 0.
SeekArgs == 0..MaxSeek
AnyRead(n) == Len(hist[1]) < MaxSeekCalls /\ DoRead(1, n)
AnySeek(k) == Len(hist[1]) < MaxSeekCalls /\ DoSeek(1, k)

NextSeek ==
    \/ \E n \in ReadArgs : AnyRead(n)
    \/ \E k \in SeekArgs : AnySeek(k)

SpecSeek == Init /\ [][NextSeek]_vars

\* ---------------------------------------------------------------------------
\* Two streams of the same seed whose payloads are about one word long: the
\* first, no longer than the second, is read in pieces and rewound; the
\* second is read with one read(-1).
WordSizes == (Md5DigestSize + MaxWordPayload - 2)..(Md5DigestSize + MaxWordPayload)
WordReadArgs == {-1} \cup (1..MaxWordRead)

InitWords ==
    /\ now = 0
    /\ \E a \in WordSizes, b \in WordSizes, seed \in Seeds :
           /\ a <= b
           /\ rcf = <<RandomContentFile(a, seed, 0), RandomContentFile(b, seed, 0)>>
    /\ hist = [i \in Inst |-> <<>>]
    /\ verifier = FileVerifier(0)
    /\ wire = <<>>
    /\ sent = <<>>
    /\ flipped = 0
    /\ answers = <<>>
    /\ pcf = NonePcf
    /\ plog = <<>>

WordRead(n) == Len(hist[1]) < MaxWordCalls /\ DoRead(1, n)
WordSeek == Len(hist[1]) < MaxWordCalls /\ DoSeek(1, 0)
WordReadAll == hist[2] = <<>> /\ DoRead(2, -1)

NextWords ==
    \/ \E n \in WordReadArgs : WordRead(n)
    \/ WordSeek
    \/ WordReadAll

SpecWords == InitWords /\ [][NextWords]_vars

\* ---------------------------------------------------------------------------
\* A round trip: the whole stream is read with one read(-1), one byte of it
\* may be changed on the way, and it is written to the verifier in pieces.

\* data = rcf[1].read(-1), made once
Fetch ==
    /\ hist[1] = <<>>
    /\ \E t \in Times :
           LET r == Read(rcf[1], -1, t)
           IN  /\ now' = t
               /\ rcf' = [rcf EXCEPT ![1] = r.f]
               /\ hist' = [hist EXCEPT ![1] = Append(@, ReadCall(-1, r))]
               /\ wire' = r.data
    /\ UNCHANGED <<verifier, sent, flipped, answers, pcf, plog>>

\* byte p of the data is replaced by another value before anything is written
Flip(p) ==
    /\ hist[1] # <<>>
    /\ flipped = 0
    /\ sent = <<>>
    /\ p \in 1..Len(wire)
    /\ wire' = [wire EXCEPT ![p] = (@ + 1) % 256]
    /\ flipped' = p
    /\ UNCHANGED <<now, rcf, hist, verifier, sent, answers, pcf, plog>>

\* the lengths a write may take: short, or all but a short rest
WriteLens ==
    {k \in 0..Len(wire) : k <= MaxWriteLen \/ Len(wire) - k <= MaxWriteLen}

\* verifier.write(wire[:k])
DoWrite(k) ==
    /\ Len(verifier.chunks) < MaxWrites
    /\ k \in WriteLens
    /\ \E t \in Times :
           /\ now' = t
           /\ verifier' = Write(verifier, SliceTo(wire, k), t)
    /\ wire' = SliceFrom(wire, k)
    /\ sent' = sent \o SliceTo(wire, k)
    /\ answers' = <<>>
    /\ UNCHANGED <<rcf, hist, flipped, pcf, plog>>

\* verifier.valid(), at most `most` times between two writes
DoValid(most) ==
    /\ Len(answers) < most
    /\ LET r == Valid(verifier)
       IN  /\ verifier' = r.v
           /\ answers' = Append(answers, r.result)
    /\ UNCHANGED <<now, rcf, hist, wire, sent, flipped, pcf, plog>>

NextVerify ==
    \/ Fetch
    \/ \E p \in 1..Len(wire) : Flip(p)
    \/ \E k \in 0..Len(wire) : DoWrite(k)
    \/ DoValid(1)

SpecVerify == Init /\ [][NextVerify]_vars

\* The same without corruption, valid() being asked repeatedly.
NextValid ==
    \/ Fetch
    \/ \E k \in 0..Len(wire) : DoWrite(k)
    \/ DoValid(MaxValids)

SpecValid == Init /\ [][NextValid]_vars

\* ---------------------------------------------------------------------------
\* files2 with one file: the stream is copied to a temporary file and a
\* PrecomputedContentFile is made of that and yielded; its caller reads it and
\* seeks in it.  shutil copies CopyLength bytes at a time; so that a block
\* can end inside a short stream, the copies are also made in shorter blocks.
Blocks == (1..MaxBlock) \cup {CopyLength}
PcfReadArgs == -1..MaxPcfRead
PcfSeekArgs == 0..MaxPcfSeek

Materialize(length) ==
    /\ hist[1] = <<>>
    /\ pcf = NonePcf
    /\ \E t \in Times :
           LET c == CopyStream(rcf[1], TempFile, length, t)
           IN  /\ now' = t
               /\ rcf' = [rcf EXCEPT ![1] = c.f]
               /\ hist' = [hist EXCEPT ![1] = c.calls]
               /\ pcf' = PrecomputedContentFile(c.fdst, length, t)
    /\ UNCHANGED <<verifier, wire, sent, flipped, answers, plog>>

\* pcf.read(n)
DoPcfRead(n) ==
    /\ pcf # NonePcf
    /\ Len(plog) < MaxPcfCalls
    /\ \E t \in Times :
           LET r == PcfRead(pcf, n, t)
           IN  /\ now' = t
               /\ pcf' = r.p
               /\ plog' = Append(plog, [op |-> "read", arg |-> n, data |-> r.data,
                                        tell |-> PcfTell(r.p)])
    /\ UNCHANGED <<rcf, hist, verifier, wire, sent, flipped, answers>>

\* pcf.seek(k)
DoPcfSeek(k) ==
    /\ pcf # NonePcf
    /\ Len(plog) < MaxPcfCalls
    /\ \E t \in Times :
           LET p == PcfSeek(pcf, k, t)
           IN  /\ now' = t
               /\ pcf' = p
               /\ plog' = Append(plog, [op |-> "seek", arg |-> k, data |-> <<>>,
                                        tell |-> PcfTell(p)])
    /\ UNCHANGED <<rcf, hist, verifier, wire, sent, flipped, answers>>

NextPcf ==
    \/ \E length \in Blocks : Materialize(length)
    \/ \E n \in PcfReadArgs : DoPcfRead(n)
    \/ \E k \in PcfSeekArgs : DoPcfSeek(k)

SpecPcf == Init /\ [][NextPcf]_vars

\* ===========================================================================
\* Properties of the round trip (SpecVerify, SpecValid)

Fetched == hist[1] # <<>>
\* the stream has been read, was not changed, and has been written completely
WroteWholeStream == Fetched /\ flipped = 0 /\ wire = <<>>
\* the verifier received its bytes in two non-empty writes
TwoRealWrites ==
    /\ Len(verifier.chunks) = 2
    /\ 0 < verifier.chunks[1][1]
    /\ verifier.chunks[1][1] < verifier.chunks[2][1]

\* C1: a stream of size >= 16 read with one read(-1) and written to a fresh
\* verifier, in whatever pieces, is valid after the last write.
C1_WholeStreamIsValid ==
    (rcf[1].size >= Md5DigestSize /\ WroteWholeStream) => Valid(verifier).result

C1_Witness ==
    /\ rcf[1].size > Md5DigestSize
    /\ WroteWholeStream
    /\ TwoRealWrites
    /\ answers = <<TRUE>>

\* C6: once at least 16 bytes were written, valid() holds exactly when the
\* last 16 bytes written are the digest of all the bytes before them.
C6_ValidIffTrailerIsDigest ==
    Len(sent) >= Md5DigestSize =>
        (Valid(verifier).result <=>
            SliceFrom(sent, -Md5DigestSize) = Md5Digest(Slice(sent, 0, -Md5DigestSize)))

C6_Witness ==
    /\ Len(sent) > Md5DigestSize
    /\ flipped > Len(sent) - Md5DigestSize
    /\ wire = <<>>
    /\ TwoRealWrites
    /\ answers = <<FALSE>>

\* C7: while fewer than 16 bytes were written, valid() holds exactly when the
\* bytes written are a prefix of the digest of the empty payload; so every
\* prefix of an unchanged stream of size < 16 is valid.
C7_ShortIsValidIffDigestPrefix ==
    /\ Len(sent) < Md5DigestSize =>
           (Valid(verifier).result <=> StartsWith(Md5Digest(<<>>), sent))
    /\ (rcf[1].size < Md5DigestSize /\ Fetched /\ flipped = 0) => Valid(verifier).result

C7_Witness ==
    /\ rcf[1].size = 2
    /\ rcf[1].size < Md5DigestSize
    /\ WroteWholeStream
    /\ TwoRealWrites
    /\ answers = <<TRUE>>

\* C8: the bytes fed into the digest followed by buf are the bytes written,
\* size is their number, and buf holds min(size, 16) bytes.
C8_DigestInputThenBufIsWritten ==
    /\ verifier.hash \o verifier.buf = sent
    /\ verifier.size = Len(sent)
    /\ Len(verifier.buf) = Min(verifier.size, Md5DigestSize)

C8_Witness ==
    /\ verifier.hash # <<>>
    /\ TwoRealWrites
    /\ verifier.chunks[1][1] < Md5DigestSize

\* C9: a valid() call leaves the verifier as it was, and a valid() call that
\* follows another returns what that one returned.
C9_ValidChangesNothing ==
    [][Len(answers') > Len(answers) =>
          /\ verifier' = verifier
          /\ answers # <<>> => answers'[Len(answers')] = answers[Len(answers)]]_vars

C9_Witness ==
    /\ Len(answers) = 2
    /\ verifier.hash # <<>>
    /\ Len(verifier.chunks) = 2

\* C10: a stream of size >= 17 with one payload byte changed is not valid
\* after the last write.
C10_FlippedPayloadIsInvalid ==
    (/\ rcf[1].size > Md5DigestSize
     /\ flipped \in 1..(rcf[1].size - Md5DigestSize)
     /\ wire = <<>>) => ~Valid(verifier).result

C10_Witness ==
    /\ rcf[1].size > Md5DigestSize
    /\ flipped \in 1..(rcf[1].size - Md5DigestSize)
    /\ wire = <<>>
    /\ TwoRealWrites
    /\ answers = <<FALSE>>

\* ===========================================================================
\* Properties of one stream (SpecStream) and of two streams (SpecPair)

RECURSIVE Joined(_)
\* the bytes a sequence of calls returned, concatenated
Joined(calls) == IF calls = <<>> THEN <<>> ELSE Head(calls).data \o Joined(Tail(calls))

\* the positions of the seek(0) calls in a history, and 0 for the construction
PassStarts(h) == {0} \cup {i \in 1..Len(h) : h[i].op = "seek" /\ ~h[i].raised}
\* the calls of the pass that starts at s: those up to the next seek(0)
Pass(h, s) ==
    LET later == {i \in PassStarts(h) : i > s}
        end == IF later = {} THEN Len(h)
               ELSE (CHOOSE i \in later : \A j \in later : i <= j) - 1
    IN  SubSeq(h, s + 1, end)
Args(calls) == [i \in 1..Len(calls) |-> calls[i].arg]
Outs(calls) == [i \in 1..Len(calls) |-> calls[i].data]
\* the pass returned as many bytes as the stream has
Complete(calls) == Len(Joined(calls)) = rcf[1].size

\* byte j (from 0) of the seed's words, taken in draw order
WordByte(seed, j) == StructPackQ(GetRandBits64([seed |-> seed, pos |-> j \div 8]))[(j % 8) + 1]
PayloadBytes(seed, count) == [j \in 1..count |-> WordByte(seed, j - 1)]

\* what one read(-1) on a fresh stream returns
ReadAll(size, seed) == Read(RandomContentFile(size, seed, 0), -1, 0).data

\* C2: reads of n >= 1 bytes that consume a fresh stream return, joined, what
\* one read(-1) on a fresh stream returns.
C2_ChunkedReadsEqualReadAll ==
    (/\ PassStarts(hist[1]) = {0}
     /\ \A i \in 1..Len(hist[1]) : hist[1][i].arg >= 1
     /\ Tell(rcf[1]) = rcf[1].size)
        => Joined(hist[1]) = ReadAll(rcf[1].size, rcf[1].seed)

\* C3: one read(-1) on a fresh stream returns size bytes: the payload and then
\* the digest of the payload, or, below 16, the first size bytes of the digest
\* of the empty payload.
C3_ReadAllIsPayloadThenDigest ==
    (Len(hist[1]) = 1 /\ hist[1][1].op = "read" /\ hist[1][1].arg = -1) =>
        LET data == hist[1][1].data
            size == rcf[1].size
            payload == PayloadBytes(rcf[1].seed, size - Md5DigestSize)
        IN  /\ Len(data) = size
            /\ size >= Md5DigestSize => data = payload \o Md5Digest(payload)
            /\ size < Md5DigestSize => data = SliceTo(Md5Digest(<<>>), size)

C3_Witness ==
    /\ Len(hist[1]) = 1
    /\ hist[1][1].arg = -1
    /\ rcf[1].size > Md5DigestSize
    /\ Len(hist[1][1].data) = rcf[1].size

\* C4: a pass that reads the stream to its end with the read sizes of an
\* earlier such pass returns what that pass returned, call by call.
C4_RereadReturnsTheSame ==
    \A s1, s2 \in PassStarts(hist[1]) :
        LET p == Pass(hist[1], s1)
            q == Pass(hist[1], s2)
        IN  (s1 < s2 /\ Complete(p) /\ Complete(q) /\ Args(p) = Args(q))
                => Outs(p) = Outs(q)

C4_Witness ==
    /\ rcf[1].size > Md5DigestSize
    /\ PassStarts(hist[1]) = {0, 2}
    /\ Len(hist[1]) = 3
    /\ Complete(Pass(hist[1], 0))
    /\ Complete(Pass(hist[1], 2))

\* C5: two streams built with the same size and seed and given the same calls
\* return the same bytes at every call and are at the same offset after the
\* same number of calls.
C5_SameCallsSameBytes ==
    /\ \A k \in 1..Len(hist[2]) : hist[2][k] = hist[1][k]
    /\ Len(hist[2]) = Len(hist[1]) => Tell(rcf[2]) = Tell(rcf[1])

C5_Witness ==
    /\ rcf[1].size > Md5DigestSize
    /\ Len(hist[1]) = MaxPairCalls
    /\ Len(hist[2]) = MaxPairCalls
    /\ hist[1][1].op = "seek"
    /\ Tell(rcf[1]) = rcf[1].size
    /\ rcf[1].last_seek # rcf[2].last_seek

\* ===========================================================================
\* Properties of seek, of the digest and of the chunk records

\* the call the step just made on rcf[1], when it made one
Called == Len(hist'[1]) = Len(hist[1]) + 1
LastCall == hist'[1][Len(hist'[1])]

\* C11: seek(k) with k # 0 raises the assertion error and leaves every field
\* of the stream as it was.
C11_BadSeekRaisesAndChangesNothing ==
    [][(Called /\ LastCall.op = "seek" /\ LastCall.arg # 0) =>
          (LastCall.raised /\ rcf'[1] = rcf[1])]_vars

C11_Witness ==
    /\ Len(hist[1]) = 2
    /\ hist[1][1].op = "read"
    /\ hist[1][2].op = "seek"
    /\ hist[1][2].arg # 0
    /\ hist[1][2].raised
    /\ rcf[1].buffer # <<>>
    /\ Tell(rcf[1]) > 0

\* the digest of the whole payload of rcf[1]
PayloadDigest == Md5Digest(PayloadBytes(rcf[1].seed, rcf[1].size - Md5DigestSize))
\* rcf[1] has returned a byte of its trailer since the last seek(0)
InTrailer == Tell(rcf[1]) > Max(rcf[1].size - Md5DigestSize, 0)

\* C12 as stated: once the digest is materialized, the field keeps that value
\* in every later state of the stream (so it is materialized once only).
C12_DigestOnceForLife ==
    [][rcf[1].digest # NoneBytes => rcf'[1].digest = rcf[1].digest]_vars

\* C12 as amended: the digest is materialized when the first trailer byte of a
\* pass is returned and not before, it is the digest of the whole payload each
\* time, and it keeps its value until a seek(0) sets it back to None.
C12_DigestOncePerPass ==
    /\ [](rcf[1].digest # NoneBytes <=> InTrailer)
    /\ [](rcf[1].digest # NoneBytes => rcf[1].digest = PayloadDigest)
    /\ [][(rcf[1].digest # NoneBytes /\ rcf'[1].digest # rcf[1].digest) =>
             (Called /\ LastCall.op = "seek" /\ rcf'[1].digest = NoneBytes)]_vars

C12_Witness ==
    /\ rcf[1].size > Md5DigestSize
    /\ Len(hist[1]) = 4
    /\ PassStarts(hist[1]) = {0, 2}
    /\ hist[1][1].data # <<>>
    /\ Len(hist[1][3].data) = 1
    /\ rcf[1].digest = PayloadDigest

\* ===========================================================================
\* Properties of PrecomputedContentFile and of files2 (SpecPcf)

PcfCalled == Len(plog') = Len(plog) + 1
PcfLastCall == plog'[Len(plog')]

\* C13: no call changes the buffered content, and a read(-1) that follows the
\* construction or a seek(0) returns all of it, whatever was called before.
C13_EveryCycleReturnsTheContent ==
    /\ [][pcf # NonePcf => pcf'.file.content = pcf.file.content]_vars
    /\ [](\A i \in 1..Len(plog) :
             (/\ plog[i].op = "read"
              /\ plog[i].arg = -1
              /\ i > 1 => (plog[i - 1].op = "seek" /\ plog[i - 1].arg = 0))
                 => plog[i].data = pcf.file.content)

C13_Witness ==
    /\ Len(plog) = 3
    /\ plog[1].op = "read"
    /\ plog[1].data # <<>>
    /\ plog[2].op = "seek"
    /\ plog[2].arg = 0
    /\ plog[3].op = "read"
    /\ plog[3].arg = -1
    /\ Len(plog[3].data) > Md5DigestSize

\* C14: seek(k) with k # 0 changes the cursor only; seek(0) moves chunks to
\* last_chunks and leaves chunks empty; a read appends one chunk record, whose
\* offset is the cursor after the read.
C14_OnlySeekZeroResetsChunks ==
    [][PcfCalled =>
          /\ (PcfLastCall.op = "seek" /\ PcfLastCall.arg # 0) =>
                 pcf' = [pcf EXCEPT !.file.pos = PcfLastCall.arg]
          /\ (PcfLastCall.op = "seek" /\ PcfLastCall.arg = 0) =>
                 (pcf'.last_chunks = pcf.chunks /\ pcf'.chunks = <<>>)
          /\ PcfLastCall.op = "read" =>
                 /\ Len(pcf'.chunks) = Len(pcf.chunks) + 1
                 /\ SubSeq(pcf'.chunks, 1, Len(pcf.chunks)) = pcf.chunks
                 /\ pcf'.chunks[Len(pcf'.chunks)][1] = PcfTell(pcf')
                 /\ pcf'.last_chunks = pcf.last_chunks]_vars

C14_Witness ==
    /\ Len(plog) = 3
    /\ plog[1].op = "read"
    /\ plog[2].op = "seek"
    /\ plog[2].arg # 0
    /\ plog[3].op = "seek"
    /\ plog[3].arg = 0
    /\ Len(pcf.last_chunks) = 1
    /\ pcf.last_chunks[1][1] > 0
    /\ pcf.chunks = <<>>

\* C18: the content files2 buffers for a stream is what one read(-1) on a
\* fresh stream returns, whatever the block length of the copy, and it passes
\* the verifier.
C18_BlockCopyEqualsReadAll ==
    pcf # NonePcf =>
        /\ pcf.file.content = ReadAll(rcf[1].size, rcf[1].seed)
        /\ Valid(Write(FileVerifier(0), pcf.file.content, 0)).result

\* ===========================================================================
\* Properties of the chunk records and of the offset (SpecStream)

\* the calls made since the last seek(0), or since the construction
CurrentPass == Pass(hist[1], CHOOSE s \in PassStarts(hist[1]) :
                                 \A u \in PassStarts(hist[1]) : u <= s)
ReadsOf(calls) == SelectSeq(calls, LAMBDA c : c.op = "read")

\* C15: chunks has one record for each read made since the last seek(0), also
\* for the reads that returned nothing; record i holds the offset right after
\* read i, and the offsets never decrease.
C15_OneChunkPerRead ==
    LET reads == ReadsOf(CurrentPass)
        chunks == rcf[1].chunks
    IN  /\ Len(chunks) = Len(reads)
        /\ \A i \in 1..Len(chunks) : chunks[i][1] = reads[i].tell
        /\ \A i \in 1..(Len(chunks) - 1) : chunks[i][1] <= chunks[i + 1][1]

C15_Witness ==
    /\ PassStarts(hist[1]) # {0}
    /\ Len(rcf[1].chunks) = 2
    /\ rcf[1].size > 0
    /\ rcf[1].chunks[1][1] = rcf[1].size
    /\ rcf[1].chunks[2][1] = rcf[1].size
    /\ CurrentPass[2].data = <<>>

\* the number of payload bytes read(n) would take from the stream as it is
RandomCount(f, n) ==
    Min(IF n < 0 THEN f.size - f.offset ELSE n, f.size - f.offset - f.digest_size)

\* C16: the digest is made only when the whole payload has been read; the
\* hash object is None exactly when the digest is made; so no read takes
\* payload bytes while the hash object is None, and no read raises.
C16_SealedOnlyAfterPayload ==
    /\ [](rcf[1].digest # NoneBytes => rcf[1].offset >= rcf[1].size - Md5DigestSize)
    /\ [](rcf[1].hash = NoneBytes <=> rcf[1].digest # NoneBytes)
    /\ [](\A n \in ReadArgs : RandomCount(rcf[1], n) > 0 => rcf[1].hash # NoneBytes)
    /\ [](\A i \in 1..Len(hist[1]) : ~hist[1][i].raised)
    /\ [][(Called /\ LastCall.op = "read" /\ rcf[1].digest # NoneBytes) =>
             (rcf'[1].buffer = rcf[1].buffer /\ rcf'[1].random = rcf[1].random)]_vars

C16_Witness ==
    /\ rcf[1].size > Md5DigestSize
    /\ rcf[1].digest # NoneBytes
    /\ rcf[1].hash = NoneBytes
    /\ Len(CurrentPass) = 3
    /\ CurrentPass[1].tell = rcf[1].size - Md5DigestSize
    /\ CurrentPass[2].data # <<>>
    /\ CurrentPass[3].data # <<>>

\* C17: the offset stays within 0..size and is the number of bytes returned
\* since the last seek(0); read(n) returns min(n, size - offset) bytes for
\* n >= 0 and size - offset bytes for n < 0 and advances the offset by as
\* many; a read at offset = size returns nothing and leaves offset and digest.
C17_ReadLengths ==
    /\ [](0 <= rcf[1].offset /\ rcf[1].offset <= rcf[1].size)
    /\ [](Tell(rcf[1]) = Len(Joined(CurrentPass)))
    /\ [][(Called /\ LastCall.op = "read") =>
             LET n == LastCall.arg
                 left == rcf[1].size - rcf[1].offset
                 got == Len(LastCall.data)
             IN  /\ got = IF n >= 0 THEN Min(n, left) ELSE left
                 /\ rcf'[1].offset = rcf[1].offset + got
                 /\ LastCall.tell = rcf'[1].offset
                 /\ left = 0 => /\ LastCall.data = <<>>
                                /\ rcf'[1].offset = rcf[1].offset
                                /\ rcf'[1].digest = rcf[1].digest]_vars

C17_Witness ==
    /\ rcf[1].size > 0
    /\ Len(CurrentPass) = 3
    /\ CurrentPass[1].arg > 0
    /\ Len(CurrentPass[1].data) = CurrentPass[1].arg
    /\ CurrentPass[2].arg > Len(CurrentPass[2].data)
    /\ CurrentPass[2].tell = rcf[1].size
    /\ CurrentPass[3].arg # 0
    /\ CurrentPass[3].data = <<>>
    /\ rcf[1].offset = rcf[1].size

\* C20: whatever the stream has done, seek(0) leaves it as a stream just
\* constructed with the same size and seed, except that last_chunks holds the
\* chunk records as they were before the seek; chunks is empty.
C20_SeekZeroIsFreshStream ==
    [][(Called /\ LastCall.op = "seek" /\ LastCall.arg = 0) =>
          /\ ~LastCall.raised
          /\ rcf'[1].size = rcf[1].size
          /\ rcf'[1].seed = rcf[1].seed
          /\ rcf'[1].offset = 0
          /\ rcf'[1].random = RandomNew(rcf[1].seed)
          /\ rcf'[1].buffer = <<>>
          /\ rcf'[1].hash = Md5New
          /\ rcf'[1].digest = NoneBytes
          /\ rcf'[1].last_chunks = rcf[1].chunks
          /\ rcf'[1].chunks = <<>>
          /\ rcf'[1] = [RandomContentFile(rcf[1].size, rcf[1].seed, now')
                            EXCEPT !.last_chunks = rcf[1].chunks]]_vars

\* a seek(0) made after a read inside the payload, which left bytes in the
\* buffer, and a read that ended inside the trailer
C20_Witness ==
    /\ rcf[1].size > Md5DigestSize
    /\ Len(hist[1]) = 3
    /\ hist[1][1].op = "read"
    /\ hist[1][1].tell = rcf[1].size - Md5DigestSize
    /\ hist[1][2].op = "read"
    /\ hist[1][2].tell > hist[1][1].tell
    /\ hist[1][2].tell < rcf[1].size
    /\ hist[1][3].op = "seek"
    /\ rcf[1].offset = 0
    /\ Len(rcf[1].last_chunks) = 2
    /\ rcf[1].chunks = <<>>

\* ===========================================================================
\* Properties of the generated payload (SpecWords)

\* the payload bytes stream i has returned since its last seek(0)
PassOf(i) == Pass(hist[i], CHOOSE s \in PassStarts(hist[i]) :
                               \A u \in PassStarts(hist[i]) : u <= s)
PayloadOut(i) ==
    SliceTo(Joined(PassOf(i)), Min(rcf[i].offset, rcf[i].size - Md5DigestSize))

\* C19: the payload a stream has returned in a pass is the head of the seed's
\* words laid out byte by byte, however it was read and whatever its size:
\* no byte is left out or returned twice, and the payload of the shorter of two
\* streams of one seed is the head of the payload of the longer.  The words of
\* successive _generate calls, of any lengths, are the seed's words in order.
C19_PayloadIsTheWordSequence ==
    /\ \A i \in Inst :
           PayloadOut(i) = PayloadBytes(rcf[i].seed,
                                        Min(rcf[i].offset, rcf[i].size - Md5DigestSize))
    /\ (/\ rcf[1].offset >= rcf[1].size - Md5DigestSize
        /\ rcf[2].offset >= rcf[2].size - Md5DigestSize)
           => PayloadOut(1) = SliceTo(PayloadOut(2), Len(PayloadOut(1)))
    /\ \A a \in 0..MaxWords, b \in 0..MaxWords :
           LET first == GenerateWords(RandomNew(rcf[1].seed), a)
               second == GenerateWords(first.random, b)
           IN  first.s \o second.s = PayloadBytes(rcf[1].seed, 8 * (a + b))

\* the first stream, with a payload of a word or more, was read in two
\* pieces, and the second stream, which is longer, was read
C19_Witness ==
    /\ rcf[1].size - Md5DigestSize >= 8
    /\ rcf[2].size > rcf[1].size
    /\ hist[2] # <<>>
    /\ Len(hist[1]) = 2
    /\ PassStarts(hist[1]) = {0}
    /\ hist[1][1].tell > 0
    /\ hist[1][1].tell < 8
    /\ hist[1][2].tell = rcf[1].size

====
